---------------------------- MODULE Spec2Model ----------------------------
(***************************************************************************)
(* log_seq: a sink for the `log` facade that forwards records to a Seq     *)
(* server as CLEF events (src/src/lib.rs).                                 *)
(*                                                                         *)
(* A text is a sequence of strings.  The characters that matter to the     *)
(* code (the quote, the backslash, the newline, the letters of a module    *)
(* path) are elements of their own; a run of ordinary characters that the  *)
(* code only copies ("Application", "[ ERROR ]") may be one element.       *)
(***************************************************************************)
EXTENDS Integers, Sequences, FiniteSets, TLC

VARIABLES
    sinks,      \* the Seq structs constructed so far, in construction order
    logger,     \* the facade's global logger: 0 (none) or an index of sinks
    max_level,  \* the facade's global maximum level filter
    aborted,    \* the sinks whose init() panicked
    clock,      \* the wall clock read by Utc::now()
    pc,         \* per thread: where it stands inside log()
    cur,        \* per thread: the call in progress, an index of calls, or 0
    msg,        \* per thread: the local SeqMessage of the call in progress
    calls,      \* history: every log() call, its record and how it went
    stdout,     \* the lines printed to standard output
    stderr,     \* the lines printed to standard error
    posts       \* the HTTP POST requests issued

vars == <<sinks, logger, max_level, aborted, clock, pc, cur, msg, calls,
          stdout, stderr, posts>>

---------------------------------------------------------------------------
(* Bounds of the model.                                                    *)

MaxSinks == 2
MaxCalls == 2
MaxClock == 1
MaxLen == 2

Threads == {1, 2}

---------------------------------------------------------------------------
(* Texts.                                                                  *)

Q  == "\""
BS == "\\"
NL == "\n"

None == [some |-> FALSE]
Some(x) == [some |-> TRUE, val |-> x]
unwrap_or(o, d) == IF o.some THEN o.val ELSE d

RECURSIVE replace(_, _, _)
\* str::replace(from, to) for a one-character pattern
replace(s, from, to) ==
    IF s = <<>> THEN <<>>
    ELSE (IF Head(s) = from THEN to ELSE <<Head(s)>>) \o replace(Tail(s), from, to)

\* str::contains
contains(s, pat) ==
    \E i \in 0..(Len(s) - Len(pat)) :
        \A j \in 1..Len(pat) : s[i + j] = pat[j]

Digit == <<"0", "1", "2", "3", "4", "5", "6", "7", "8", "9">>

RECURSIVE u32_to_string(_)
\* Display of a u32: its decimal digits
u32_to_string(n) ==
    IF n < 10 THEN <<Digit[n + 1]>>
    ELSE u32_to_string(n \div 10) \o <<Digit[(n % 10) + 1]>>

---------------------------------------------------------------------------
(* The facade's levels (log::Level, log::LevelFilter).                     *)

Levels == {"Trace", "Debug", "Info", "Warn", "Error"}

\* the discriminants LevelFilter's derived ordering compares
LevelFilterOrd ==
    [Off |-> 0, Error |-> 1, Warn |-> 2, Info |-> 3, Debug |-> 4, Trace |-> 5]

\* Level::to_level_filter: the filter of the same name
to_level_filter(level) == level

---------------------------------------------------------------------------
(* Inputs.                                                                 *)

SvcHandler == <<"s", "v", "c", ":", ":", "h", "a", "n", "d", "l", "e", "r">>
OtherThing == <<"o", "t", "h", "e", "r", ":", ":", "t", "h", "i", "n", "g">>
ModulePaths == {None, Some(SvcHandler), Some(OtherThing)}

Boom  == <<"boom">>
SayHi == <<"say ", Q, "hi", Q>>

RECURSIVE TextsUpTo(_, _)
TextsUpTo(alphabet, n) ==
    IF n = 0 THEN {<<>>}
    ELSE LET shorter == TextsUpTo(alphabet, n - 1)
         IN  shorter \cup {Append(s, c) : s \in shorter, c \in alphabet}

\* the records the threads log
LogRecords ==
    [level : Levels, module_path : ModulePaths, args : {SayHi},
     file : {Some(<<"src/lib.rs">>)}, line : {Some(42)}]

\* the records one call is rendered for: every short message over the
\* characters the rendering treats specially, every missing field
RenderRecords ==
    [level : Levels, module_path : ModulePaths,
     args : TextsUpTo({"a", "n", Q, BS, NL}, MaxLen),
     file : {None, Some(<<"src/lib.rs">>)}, line : {None, Some(0), Some(42)}]

\* the arguments of Seq::new: the doc scenario, and a sink with an API key
\* and an empty module filter
NewArgs ==
    { [api_key |-> <<>>, ingest_url |-> <<"http://localhost:5341">>,
       application |-> <<"svc">>, module |-> <<"s", "v", "c">>],
      [api_key |-> <<"k">>, ingest_url |-> <<>>,
       application |-> <<"log_seq test">>, module |-> <<>>] }

\* what ureq's send returns: Ok, a transport error, a non-success status
SendResults == {"Ok", "Err(Io)", "Err(StatusCode(500))"}

---------------------------------------------------------------------------
(* Seq.                                                                    *)

\* Seq::new with the minimum level left at the most verbose filter
new_trace(api_key, ingest_url, application, module) ==
    [default_level |-> "Trace", ingest_url |-> ingest_url, api_key |-> api_key,
     application |-> application, module |-> module]

\* Seq::new
new(api_key, ingest_url, application, module) ==
    [default_level |-> "Info", ingest_url |-> ingest_url, api_key |-> api_key,
     application |-> application, module |-> module]

\* Seq::level_to_seq_level
level_to_seq_level(level) ==
    CASE level = "Trace" -> "Verbose"
      [] level = "Debug" -> "Debug"
      [] level = "Info"  -> "Information"
      [] level = "Warn"  -> "Warning"
      [] level = "Error" -> "Error"

\* debug_print printing the message as it is, quotes included
debug_print_raw(record) ==
    LET prefix == CASE record.level = "Trace" -> "[ TRACE ]"
                    [] record.level = "Debug" -> "[ DEBUG ]"
                    [] record.level = "Info"  -> "[ INFO ]"
                    [] record.level = "Warn"  -> "[ WARN ]"
                    [] record.level = "Error" -> "[ ERROR ]"
    IN  <<prefix, " ">> \o record.args

\* Seq::debug_print: the line it prints, without the line terminator
debug_print(record) ==
    LET prefix == CASE record.level = "Trace" -> "[ TRACE ]"
                    [] record.level = "Debug" -> "[ DEBUG ]"
                    [] record.level = "Info"  -> "[ INFO ]"
                    [] record.level = "Warn"  -> "[ WARN ]"
                    [] record.level = "Error" -> "[ ERROR ]"
    IN  <<prefix, " ">> \o replace(record.args, Q, <<>>)

\* Utc::now().format("%+"): the clock as an ISO-8601 time with offset
format_now(now) == <<"2026-11-06T00:00:0">> \o u32_to_string(now) \o <<"+00:00">>

\* from_record numbering a record without a line from 1
from_record_line1(seq, record, now) ==
    [timestamp   |-> format_now(now),
     message     |-> record.args,
     application |-> seq.application,
     line        |-> unwrap_or(record.line, 1),
     level       |-> level_to_seq_level(record.level),
     module      |-> unwrap_or(record.module_path, <<>>),
     file        |-> unwrap_or(record.file, <<>>)]

\* SeqMessage::from_record
from_record(seq, record, now) ==
    [timestamp   |-> format_now(now),
     message     |-> record.args,
     application |-> seq.application,
     line        |-> unwrap_or(record.line, 0),
     level       |-> level_to_seq_level(record.level),
     module      |-> unwrap_or(record.module_path, <<>>),
     file        |-> unwrap_or(record.file, <<>>)]

\* SeqMessage::as_clef
as_clef(m) ==
    <<"{", Q, "@t", Q, ":", " ", Q>> \o m.timestamp
      \o <<Q, ",", " ", Q, "@mt", Q, ":", " ", Q>>
      \o replace(replace(m.message, Q, <<BS, Q>>), NL, <<BS, "n">>)
      \o <<Q, ",", " ", Q, "Application", Q, ":", " ", Q>> \o m.application
      \o <<Q, ",", " ", Q, "Line", Q, ":", " ", Q>> \o u32_to_string(m.line)
      \o <<Q, ",", " ", Q, "@l", Q, ":", " ", Q, m.level>>
      \o <<Q, ",", " ", Q, "Module", Q, ":", " ", Q>> \o m.module
      \o <<Q, ",", " ", Q, "file", Q, ":", " ", Q>> \o m.file
      \o <<Q, "}">>

\* enabled with the threshold itself left out
enabled_exclusive(seq, level) ==
    LevelFilterOrd[to_level_filter(level)] < LevelFilterOrd[seq.default_level]

\* enabled with the comparison turned around
enabled_reversed(seq, level) ==
    LevelFilterOrd[to_level_filter(level)] >= LevelFilterOrd[seq.default_level]

\* <Seq as Log>::enabled
enabled(seq, level) ==
    LevelFilterOrd[to_level_filter(level)] <= LevelFilterOrd[seq.default_level]

\* the module filter letting Info bypass it as well
filtered_out_info(seq, record) ==
    /\ ~contains(unwrap_or(record.module_path, <<>>), seq.module)
    /\ ~(LevelFilterOrd[to_level_filter(record.level)] <= LevelFilterOrd["Info"])

\* the module filter of <Seq as Log>::log: TRUE when log returns early
filtered_out(seq, record) ==
    /\ ~contains(unwrap_or(record.module_path, <<>>), seq.module)
    /\ ~(LevelFilterOrd[to_level_filter(record.level)] <= LevelFilterOrd["Warn"])

\* the request log() builds
post_request(seq, m) ==
    [url     |-> seq.ingest_url \o <<"/api/events/raw?clef">>,
     headers |-> << <<"X-Seq-ApiKey", seq.api_key>>,
                    <<"Content-Type", "application/vnd.serilog.clef">> >>,
     body    |-> as_clef(m)]

---------------------------------------------------------------------------
(* The state machine.                                                      *)

NoMsg == [none |-> TRUE]

\* Seq::new(...): one more sink, owned by its caller
SeqNew(a) ==
    /\ Len(sinks) < MaxSinks
    /\ sinks' = Append(sinks, new(a.api_key, a.ingest_url, a.application, a.module))
    /\ UNCHANGED <<logger, max_level, aborted, clock, pc, cur, msg, calls,
                   stdout, stderr, posts>>

\* init replacing the logger that is set
SeqInit_overwrite(s) ==
    /\ s \in 1..Len(sinks)
    /\ s # logger
    /\ s \notin aborted
    /\ max_level' = sinks[s].default_level
    /\ logger' = s
    /\ UNCHANGED <<sinks, aborted, clock, pc, cur, msg, calls, stdout, stderr, posts>>

\* Seq::init(self): consumes sink s; the expect panics when a logger is set
SeqInit(s) ==
    /\ s \in 1..Len(sinks)
    /\ s # logger
    /\ s \notin aborted
    /\ max_level' = sinks[s].default_level
    /\ IF logger = 0
         THEN logger' = s /\ UNCHANGED aborted
         ELSE aborted' = aborted \cup {s} /\ UNCHANGED logger
    /\ UNCHANGED <<sinks, clock, pc, cur, msg, calls, stdout, stderr, posts>>

\* the clock advances
Tick ==
    /\ clock < MaxClock
    /\ clock' = clock + 1
    /\ UNCHANGED <<sinks, logger, max_level, aborted, pc, cur, msg, calls,
                   stdout, stderr, posts>>

\* log(): lines 93-108, from the two early returns to the local SeqMessage
LogBegin(t, record) ==
    /\ pc[t] = "idle"
    /\ logger # 0
    /\ Len(calls) < MaxCalls
    /\ LET seq == sinks[logger]
           id  == Len(calls) + 1
       IN  IF ~enabled(seq, record.level) \/ filtered_out(seq, record)
             THEN /\ calls' = Append(calls, [record |-> record, forwarded |-> FALSE,
                                             err |-> "", returned |-> TRUE])
                  /\ UNCHANGED <<pc, cur, msg, stdout>>
             ELSE /\ stdout' = Append(stdout, [call |-> id, line |-> debug_print(record)])
                  /\ msg' = [msg EXCEPT ![t] = from_record(seq, record, clock)]
                  /\ pc' = [pc EXCEPT ![t] = "send"]
                  /\ cur' = [cur EXCEPT ![t] = id]
                  /\ calls' = Append(calls, [record |-> record, forwarded |-> TRUE,
                                             err |-> "", returned |-> FALSE])
    /\ UNCHANGED <<sinks, logger, max_level, aborted, clock, stderr, posts>>

\* log() rendering from a message buffer the threads share
LogSend_shared(t) ==
    /\ pc[t] = "send"
    /\ \E u \in Threads :
          /\ msg[u] # NoMsg
          /\ posts' = Append(posts, [call |-> cur[t],
                                     request |-> post_request(sinks[logger], msg[u])])
    /\ pc' = [pc EXCEPT ![t] = "wait"]
    /\ UNCHANGED <<sinks, logger, max_level, aborted, clock, cur, msg, calls,
                   stdout, stderr>>

\* log(): lines 110-114, the request goes out and the thread blocks
LogSend(t) ==
    /\ pc[t] = "send"
    /\ posts' = Append(posts, [call |-> cur[t],
                               request |-> post_request(sinks[logger], msg[t])])
    /\ pc' = [pc EXCEPT ![t] = "wait"]
    /\ UNCHANGED <<sinks, logger, max_level, aborted, clock, cur, msg, calls,
                   stdout, stderr>>

\* log() sending again after a failure
LogResult_retry(t, res) ==
    /\ pc[t] = "wait"
    /\ IF res = "Ok"
         THEN /\ calls' = [calls EXCEPT ![cur[t]].returned = TRUE]
              /\ pc' = [pc EXCEPT ![t] = "idle"]
              /\ cur' = [cur EXCEPT ![t] = 0]
              /\ msg' = [msg EXCEPT ![t] = NoMsg]
              /\ UNCHANGED stderr
         ELSE /\ stderr' = stderr \o
                   << [call |-> cur[t], text |-> "Seq msg attempt: ", arg |-> msg[t]],
                      [call |-> cur[t], text |-> "Rendered message: ", arg |-> as_clef(msg[t])],
                      [call |-> cur[t], text |-> "Updating seq logs failed: ", arg |-> res] >>
              /\ calls' = [calls EXCEPT ![cur[t]].err = res]
              /\ pc' = [pc EXCEPT ![t] = "send"]
              /\ UNCHANGED <<cur, msg>>
    /\ UNCHANGED <<sinks, logger, max_level, aborted, clock, stdout, posts>>

\* log(): lines 115-122, the match on what send returned
LogResult(t, res) ==
    /\ pc[t] = "wait"
    /\ IF res = "Ok"
         THEN UNCHANGED stderr
         ELSE stderr' = stderr \o
                << [call |-> cur[t], text |-> "Seq msg attempt: ", arg |-> msg[t]],
                   [call |-> cur[t], text |-> "Rendered message: ", arg |-> as_clef(msg[t])],
                   [call |-> cur[t], text |-> "Updating seq logs failed: ", arg |-> res] >>
    /\ calls' = [calls EXCEPT ![cur[t]].returned = TRUE,
                              ![cur[t]].err = IF res = "Ok" THEN "" ELSE res]
    /\ pc' = [pc EXCEPT ![t] = "idle"]
    /\ cur' = [cur EXCEPT ![t] = 0]
    /\ msg' = [msg EXCEPT ![t] = NoMsg]
    /\ UNCHANGED <<sinks, logger, max_level, aborted, clock, stdout, posts>>

\* flush(): nothing
Flush ==
    /\ logger # 0
    /\ UNCHANGED vars

\* no thread is inside log() and nothing was logged or printed
Quiet ==
    /\ clock = 0
    /\ pc = [t \in Threads |-> "idle"]
    /\ cur = [t \in Threads |-> 0]
    /\ msg = [t \in Threads |-> NoMsg]
    /\ calls = <<>>
    /\ stdout = <<>>
    /\ stderr = <<>>
    /\ posts = <<>>

---------------------------------------------------------------------------
(* Spec: a sink installed by Seq::new(..).init(), logged to from two       *)
(* threads.  The clock stands still here; it advances in SpecRender,      *)
(* where the rendered timestamp is looked at.                              *)

Init ==
    /\ \E a \in NewArgs :
          sinks = <<new(a.api_key, a.ingest_url, a.application, a.module)>>
    /\ logger = 1
    /\ max_level = sinks[1].default_level
    /\ aborted = {}
    /\ Quiet

Next ==
    \/ \E t \in Threads, r \in LogRecords : LogBegin(t, r)
    \/ \E t \in Threads : LogSend(t)
    \/ \E t \in Threads, res \in SendResults : LogResult(t, res)
    \/ Flush

Spec == Init /\ [][Next]_vars

---------------------------------------------------------------------------
(* SpecInstall: sinks are constructed and installed while one thread logs  *)
(* the two records of the documented scenarios.                            *)

ScenarioRecords ==
    { [level |-> "Error", module_path |-> Some(SvcHandler), args |-> Boom,
       file |-> Some(<<"src/lib.rs">>), line |-> Some(42)],
      [level |-> "Debug", module_path |-> Some(OtherThing), args |-> Boom,
       file |-> Some(<<"src/lib.rs">>), line |-> Some(42)] }

InitInstall ==
    /\ sinks = <<>>
    /\ logger = 0
    /\ max_level = "Off"
    /\ aborted = {}
    /\ Quiet

NextInstall ==
    \/ \E a \in NewArgs : SeqNew(a)
    \/ \E s \in 1..MaxSinks : SeqInit(s)
    \/ \E r \in ScenarioRecords : LogBegin(1, r)
    \/ LogSend(1)
    \/ \E res \in SendResults : LogResult(1, res)

SpecInstall == InitInstall /\ [][NextInstall]_vars

---------------------------------------------------------------------------
(* SpecRender: one call on a fresh sink, for every record of               *)
(* RenderRecords.                                                          *)

NextRender ==
    \/ Tick
    \/ calls = <<>> /\ \E r \in RenderRecords : LogBegin(1, r)
    \/ LogSend(1)
    \/ \E res \in SendResults : LogResult(1, res)

SpecRender == Init /\ [][NextRender]_vars

---------------------------------------------------------------------------
(* Reading a CLEF body back: a JSON object whose values are strings, as    *)
(* the ingestion endpoint's JSON reader sees it (RFC 8259).                *)

Range(s) == {s[i] : i \in 1..Len(s)}

BadJson == [ok |-> FALSE]

\* the character an escape sequence \c stands for, "" when \c is no escape
Unescape(c) ==
    CASE c = Q    -> Q
      [] c = BS   -> BS
      [] c = "/"  -> "/"
      [] c = "n"  -> NL
      [] c = "t"  -> "\t"
      [] c = "r"  -> "\r"
      [] c = "f"  -> "\f"
      [] OTHER    -> ""

RECURSIVE ScanString(_, _, _)
\* the string whose opening quote stands before position i
ScanString(s, i, acc) ==
    IF i > Len(s) THEN BadJson
    ELSE IF s[i] = Q THEN [ok |-> TRUE, val |-> acc, next |-> i + 1]
    ELSE IF s[i] = NL THEN BadJson
    ELSE IF s[i] = BS
      THEN IF i + 1 > Len(s) \/ Unescape(s[i + 1]) = "" THEN BadJson
           ELSE ScanString(s, i + 2, Append(acc, Unescape(s[i + 1])))
    ELSE ScanString(s, i + 1, Append(acc, s[i]))

RECURSIVE SkipSpaces(_, _)
SkipSpaces(s, i) ==
    IF i <= Len(s) /\ s[i] = " " THEN SkipSpaces(s, i + 1) ELSE i

RECURSIVE ScanMembers(_, _, _)
\* the members "key": "value" from position i to the closing brace
ScanMembers(s, i, acc) ==
    IF i > Len(s) \/ s[i] # Q THEN BadJson
    ELSE LET key == ScanString(s, i + 1, <<>>)
         IN  IF ~key.ok THEN BadJson
             ELSE LET colon == SkipSpaces(s, key.next)
                  IN  IF colon > Len(s) \/ s[colon] # ":" THEN BadJson
                      ELSE LET open == SkipSpaces(s, colon + 1)
                           IN  IF open > Len(s) \/ s[open] # Q THEN BadJson
                               ELSE LET value == ScanString(s, open + 1, <<>>)
                                    IN  IF ~value.ok THEN BadJson
                                        ELSE LET sep == SkipSpaces(s, value.next)
                                                 all == Append(acc, <<key.val, value.val>>)
                                             IN  IF sep > Len(s) THEN BadJson
                                                 ELSE IF s[sep] = "}"
                                                   THEN IF sep = Len(s)
                                                          THEN [ok |-> TRUE, members |-> all]
                                                          ELSE BadJson
                                                 ELSE IF s[sep] = ","
                                                   THEN ScanMembers(s, SkipSpaces(s, sep + 1), all)
                                                 ELSE BadJson

ParseObject(s) ==
    IF s = <<>> \/ s[1] # "{" THEN BadJson ELSE ScanMembers(s, SkipSpaces(s, 2), <<>>)

\* the values a parsed object gives the key
FieldValues(p, key) ==
    {p.members[i][2] : i \in {j \in 1..Len(p.members) : p.members[j][1] = key}}

---------------------------------------------------------------------------
(* What the claims speak of.                                               *)

\* the severity ordering Trace < Debug < Info < Warn < Error
Importance == [Trace |-> 1, Debug |-> 2, Info |-> 3, Warn |-> 4, Error |-> 5]

ActiveSink == sinks[logger]

StdoutOf(i) == {k \in 1..Len(stdout) : stdout[k].call = i}
StderrOf(i) == {k \in 1..Len(stderr) : stderr[k].call = i}
PostsOf(i)  == {k \in 1..Len(posts) : posts[k].call = i}

\* the call is being run by some thread
InProgress(i) == \E t \in Threads : cur[t] = i

PathOf(record) == IF record.module_path.some THEN record.module_path.val ELSE <<>>

\* C3: enabled(severity) is true exactly for the severities at least as
\* important as the sink's minimum level, the level itself included; with
\* the level Seq::new sets these are Info, Warn and Error.
C3_EnabledIffAtLeastMinimum ==
    logger # 0 =>
      /\ \A l \in Levels :
            enabled(ActiveSink, l) <=>
              Importance[l] >= Importance[ActiveSink.default_level]
      /\ {l \in Levels : enabled(ActiveSink, l)} = {"Info", "Warn", "Error"}
      /\ \A i \in 1..Len(calls) :
            StdoutOf(i) # {} => calls[i].record.level \in {"Info", "Warn", "Error"}

\* an Info record, the threshold itself, went through and a Debug record
\* of the same module did not
C3_Witness ==
    \E i, j \in 1..Len(calls) :
        /\ calls[i].record.level = "Info" /\ StdoutOf(i) # {}
        /\ calls[j].record.level = "Debug" /\ StdoutOf(j) = {}
        /\ calls[j].record.module_path = calls[i].record.module_path

\* C1: a record that passes enabled() is forwarded (console line, POST)
\* exactly when its module path, the empty string when missing, contains
\* the module filter or its severity is Warn or Error.
C1_ForwardedIffModuleOrSevere ==
    \A i \in 1..Len(calls) :
        LET r == calls[i].record
            wanted == \/ contains(PathOf(r), ActiveSink.module)
                      \/ r.level \in {"Warn", "Error"}
        IN  Importance[r.level] >= Importance[ActiveSink.default_level] =>
              /\ StdoutOf(i) # {} <=> wanted
              /\ PostsOf(i) # {} => wanted
              /\ (wanted /\ ~InProgress(i)) => PostsOf(i) # {}

\* a Warn record of a foreign module was forwarded, an Info record of a
\* foreign module was dropped, and so was an Info record without a path
C1_Witness ==
    \E i, j \in 1..Len(calls) :
        /\ ActiveSink.module # <<>>
        /\ calls[i].record.level = "Warn"
        /\ calls[i].record.module_path = Some(OtherThing)
        /\ PostsOf(i) # {}
        /\ calls[j].record.level = "Info"
        /\ calls[j].record.module_path \in {None, Some(OtherThing)}
        /\ StdoutOf(j) = {} /\ PostsOf(j) = {}
        /\ Len(posts) = 1

\* C2: a record below the minimum level is not enabled and its log() call
\* leaves no console line, no error-stream line and no POST.
C2_BelowMinimumNoEffect ==
    \A i \in 1..Len(calls) :
        LET r == calls[i].record
        IN  Importance[r.level] < Importance[ActiveSink.default_level] =>
              /\ ~enabled(ActiveSink, r.level)
              /\ StdoutOf(i) = {} /\ StderrOf(i) = {} /\ PostsOf(i) = {}
              /\ ~InProgress(i)

\* two Debug records whose module matches the filter were logged and
\* nothing came out
C2_Witness ==
    /\ Len(calls) = 2
    /\ \A i \in 1..2 :
          /\ calls[i].record.level \in {"Trace", "Debug"}
          /\ contains(PathOf(calls[i].record), ActiveSink.module)
    /\ stdout = <<>> /\ stderr = <<>> /\ posts = <<>>

\* C4: when the POST of a forwarded record fails, log() returns, the error
\* stream holds the rendered payload that failed and the error, and the
\* record was POSTed once and is never POSTed again.
C4_FailedPostReportedOnce ==
    \A i \in 1..Len(calls) :
        calls[i].err # "" =>
          /\ calls[i].returned /\ ~InProgress(i)
          /\ Cardinality(PostsOf(i)) = 1
          /\ \A k \in PostsOf(i) :
                \E e \in StderrOf(i) :
                    /\ stderr[e].text = "Rendered message: "
                    /\ stderr[e].arg = posts[k].request.body
          /\ \E e \in StderrOf(i) :
                /\ stderr[e].text = "Updating seq logs failed: "
                /\ stderr[e].arg = calls[i].err
          /\ Cardinality(StdoutOf(i)) = 1

\* a POST failed on the transport, a later one on the status, and both
\* calls are over
C4_Witness ==
    /\ Len(calls) = 2
    /\ calls[1].err = "Err(Io)" /\ calls[2].err = "Err(StatusCode(500))"
    /\ \A t \in Threads : pc[t] = "idle"
    /\ Len(posts) = 2

\* the console tag of each severity
ConsoleTag ==
    [Trace |-> "[ TRACE ]", Debug |-> "[ DEBUG ]", Info |-> "[ INFO ]",
     Warn |-> "[ WARN ]", Error |-> "[ ERROR ]"]

NotQuote(c) == c # Q

\* the record is one that log() forwards: enabled, and of a module that
\* matches the filter or of severity Warn or Error
Forwardable(record) ==
    /\ Importance[record.level] >= Importance[ActiveSink.default_level]
    /\ \/ contains(PathOf(record), ActiveSink.module)
       \/ record.level \in {"Warn", "Error"}

\* C7: a forwarded record prints one console line `[ LEVEL ] message`, the
\* quotes stripped from the message, and then makes one POST to
\* {ingest_url}/api/events/raw?clef with the two headers; the line is there
\* whatever the POST returns, and once every call is over there are as many
\* console lines as POSTs as forwarded records.
C7_OneLineThenOnePost ==
    /\ \A i \in 1..Len(calls) :
          LET r == calls[i].record
          IN  Forwardable(r) =>
                /\ Cardinality(StdoutOf(i)) = 1
                /\ \A k \in StdoutOf(i) :
                      stdout[k].line =
                        <<ConsoleTag[r.level], " ">> \o SelectSeq(r.args, NotQuote)
                /\ Cardinality(PostsOf(i)) =
                      IF \E t \in Threads : cur[t] = i /\ pc[t] = "send" THEN 0 ELSE 1
                /\ \A k \in PostsOf(i) :
                      /\ posts[k].request.url =
                           ActiveSink.ingest_url \o <<"/api/events/raw?clef">>
                      /\ posts[k].request.headers =
                           << <<"X-Seq-ApiKey", ActiveSink.api_key>>,
                              <<"Content-Type", "application/vnd.serilog.clef">> >>
    /\ \A k \in 1..Len(posts) : StdoutOf(posts[k].call) # {}
    /\ (\A t \in Threads : pc[t] = "idle") =>
          /\ Len(stdout) = Len(posts)
          /\ Len(posts) = Cardinality({i \in 1..Len(calls) : Forwardable(calls[i].record)})

\* two records were forwarded, the POST of the first failed, the POST of
\* the second succeeded, and every call is over
C7_Witness ==
    /\ Len(calls) = 2 /\ Len(stdout) = 2 /\ Len(posts) = 2
    /\ calls[1].err # "" /\ calls[2].err = "" /\ calls[2].returned
    /\ \A t \in Threads : pc[t] = "idle"
    /\ Q \in Range(calls[1].record.args)

\* what log() does with the record when the call runs alone on the sink
RunAlone(seq, record) ==
    IF ~enabled(seq, record.level) \/ filtered_out(seq, record)
      THEN [forwarded |-> FALSE]
      ELSE [forwarded |-> TRUE,
            request |-> post_request(seq, from_record(seq, record, 0))]

\* where the element first stands in the text
IndexOf(s, elem) ==
    CHOOSE i \in 1..Len(s) : s[i] = elem /\ \A j \in 1..(i - 1) : s[j] # elem

\* a CLEF body from its `@mt` key on: everything after the timestamp
FieldsButTime(body) == SubSeq(body, IndexOf(body, "@mt"), Len(body))

\* the value the body gives the key `@l`, between its quotes
ClefLevel(body) ==
    LET i == IndexOf(body, "@l")
    IN  IF SubSeq(body, i + 1, i + 4) = <<Q, ":", " ", Q>> /\ body[i + 6] = Q
          THEN body[i + 5] ELSE ""

C9_State ==
    /\ logger = 1
    /\ \E a \in NewArgs :
          sinks = <<new(a.api_key, a.ingest_url, a.application, a.module)>>
    /\ \A i \in 1..Len(calls) :
          LET alone == RunAlone(ActiveSink, calls[i].record)
          IN  /\ StdoutOf(i) # {} <=> alone.forwarded
              /\ \A k \in PostsOf(i) :
                    /\ alone.forwarded
                    /\ posts[k].request.url = alone.request.url
                    /\ posts[k].request.headers = alone.request.headers
                    /\ FieldsButTime(posts[k].request.body) =
                         FieldsButTime(alone.request.body)

\* C9: no step of enabled(), log() or flush() changes the sink's
\* configuration, and whatever the interleaving of the calls and whatever
\* their POSTs returned, each call's forward/drop decision and the fields
\* of its payload other than the timestamp are those of the call run alone.
C9_NoStateAcrossCalls ==
    [][sinks' = sinks /\ logger' = logger /\ max_level' = max_level]_vars /\ []C9_State

\* two calls with different records overlapped, the later call POSTed
\* first, and the POST of the later call failed
C9_Witness ==
    /\ Len(posts) = 2
    /\ posts[1].call = 2 /\ posts[2].call = 1
    /\ calls[1].record # calls[2].record
    /\ calls[2].err # "" /\ calls[1].returned

\* C10: the minimum level is always Info, so every POSTed payload has an
\* `@l` of Information, Warning or Error and no console line is tagged
\* `[ TRACE ]` or `[ DEBUG ]`.
C10_NothingBelowInfo ==
    /\ \A k \in 1..Len(posts) :
          ClefLevel(posts[k].request.body) \in {"Information", "Warning", "Error"}
    /\ \A k \in 1..Len(stdout) : stdout[k].line[1] \notin {"[ TRACE ]", "[ DEBUG ]"}

\* a Trace record of a matching module was logged and left nothing, then
\* an Info record was POSTed as Information
C10_Witness ==
    /\ Len(calls) = 2
    /\ calls[1].record.level = "Trace"
    /\ contains(PathOf(calls[1].record), ActiveSink.module)
    /\ calls[2].record.level = "Info"
    /\ Len(posts) = 1 /\ Len(stdout) = 1
    /\ ClefLevel(posts[1].request.body) = "Information"

C6_State ==
    /\ logger = 0 => aborted = {} /\ max_level = "Off" /\ posts = <<>>
    /\ logger # 0 =>
          /\ max_level = "Info"
          /\ logger \notin aborted
          /\ \A k \in 1..Len(posts) :
                posts[k].request.url =
                  sinks[logger].ingest_url \o <<"/api/events/raw?clef">>

C6_Step ==
    /\ logger # 0 => logger' = logger
    /\ \A s \in 1..Len(sinks) :
          SeqInit(s) =>
            IF logger = 0
              THEN logger' = s /\ max_level' = "Info" /\ aborted' = aborted
              ELSE aborted' = aborted \cup {s}

\* C6: init() makes the sink the facade's logger and sets the global
\* maximum level to Info; of all the init() calls only the first succeeds,
\* every later one panics, and the first sink stays the logger.
C6_FirstInitWins == []C6_State /\ [][C6_Step]_vars

\* the first sink is the logger, the init() of a second sink with another
\* configuration panicked, and a record was POSTed
C6_Witness ==
    /\ logger = 1
    /\ aborted = {2}
    /\ sinks[1] # sinks[2]
    /\ Len(posts) >= 1

\* the severity names of the table
SeqLevelName ==
    [Trace |-> "Verbose", Debug |-> "Debug", Info |-> "Information",
     Warn |-> "Warning", Error |-> "Error"]

\* C8: the SeqMessage of a record has the sink's application name, the
\* record's message, the severity name of the table, and the record's
\* module path, file and line, a missing line being 0 (rendered `0`) and a
\* missing module path or file the empty string.
C8_MessageOfRecord ==
    /\ \A l \in Levels : level_to_seq_level(l) = SeqLevelName[l]
    /\ \A t \in Threads :
          msg[t] # NoMsg =>
            LET r == calls[cur[t]].record
                m == msg[t]
            IN  /\ m.application = ActiveSink.application
                /\ m.message = r.args
                /\ m.level = SeqLevelName[r.level]
                /\ m.module = (IF r.module_path.some THEN r.module_path.val ELSE <<>>)
                /\ m.file = (IF r.file.some THEN r.file.val ELSE <<>>)
                /\ m.line = (IF r.line.some THEN r.line.val ELSE 0)
    /\ \A k \in 1..Len(posts) :
          LET r == calls[posts[k].call].record
              body == posts[k].request.body
          IN  /\ ~r.line.some => contains(body, <<Q, "Line", Q, ":", " ", Q, "0", Q>>)
              /\ ~r.module_path.some => contains(body, <<Q, "Module", Q, ":", " ", Q, Q>>)
              /\ ~r.file.some => contains(body, <<Q, "file", Q, ":", " ", Q, Q, "}">>)

\* a record without module path, file and line was rendered and POSTed
C8_Witness ==
    /\ Len(posts) = 1
    /\ msg[1] # NoMsg
    /\ calls[1].record.module_path = None
    /\ calls[1].record.file = None
    /\ calls[1].record.line = None
    /\ msg[1].line = 0 /\ msg[1].module = <<>> /\ msg[1].file = <<>>

\* C5: for every message text the rendered body is one single-line JSON
\* object whose `@mt` value, the quotes and newlines of the message
\* escaped, decodes back to the message.
C5_ClefIsJsonOfMessage ==
    \A k \in 1..Len(posts) :
        LET body == posts[k].request.body
            p == ParseObject(body)
        IN  /\ NL \notin Range(body)
            /\ p.ok
            /\ FieldValues(p, <<"@mt">>) = {calls[posts[k].call].record.args}

=============================================================================
